---- MODULE Spec2Model ----
(***************************************************************************)
(* Model of illum/batches.py: batches() and the functions it drives,       *)
(* folder_setup() and create_symlinks().                                   *)
(*                                                                         *)
(* A state holds the inputs of one run (the yaml parameters and the .lst   *)
(* files), the position of the run in batches()/folder_setup(), the three  *)
(* lists folder_setup accumulates, the sandbox tree under exec/, the       *)
(* manifest execute_info.txt and the per-sandbox 'execute' scripts.        *)
(*                                                                         *)
(* Rendered text is kept structured: a path f"{k}_{v}"/... and an ID       *)
(* "k_v-k_v" are sequences of <<k, v>> pairs (str() of a number is         *)
(* injective and the keys of one run are fixed, so two such strings are    *)
(* equal exactly when the sequences are).  The two lossy conversions,      *)
(* "%6f" and "%g", are modelled as the roundings they are.                 *)
(***************************************************************************)
EXTENDS Integers, Sequences, FiniteSets, TLC

\* Bounds of the explored inputs.
MaxLen == 2      \* longest list a yaml parameter holds
MaxBands == 2    \* most rows of wav.lst (and values of refl.lst)
MaxLayers == 2   \* most layers of the hdf5 dataset, len(ds)
MaxObs == 2      \* most observers of the hdf5 dataset
MaxCombos == 16  \* most combinations of one run, N

VARIABLES
    inp,          \* the inputs of the run: inputs_params.in, wav.lst, refl.lst, the
                  \* dataset, the --compact flag, the module namespace, the assets
    pc,           \* where the run is
    err,          \* the exception that ended the run, or "none"
    multival,     \* batches: the names of the varying parameters, sorted
    pos,          \* folder_setup: 1-based index of the next element of param_values
    exe_location, \* folder_setup: sandbox path of every combination kept so far
    exe_input,    \* folder_setup: unique_ID of every combination kept so far
    fs,           \* the sandbox tree: path -> the sandbox made there
    manifest,     \* the lines of execute_info.txt
    scripts       \* path -> the run blocks of that sandbox's 'execute' script

vars == <<inp, pc, err, multival, pos, exe_location, exe_input, fs, manifest, scripts>>

Range(s) == {s[n] : n \in 1..Len(s)}

----------------------------------------------------------------------------
(* Inputs *)

\* One yaml value: a scalar (list = FALSE, vals = <<v>>) or a list.
Scalar(v) == [list |-> FALSE, vals |-> <<v>>]
List(s) == [list |-> TRUE, vals |-> s]

RECURSIVE ListsOver(_, _)
\* Every non-empty list over S with at most n elements, repeated values included.
ListsOver(S, n) ==
    IF n = 0 THEN {}
    ELSE ListsOver(S, n - 1) \cup [1..n -> S]

\* Every non-empty prefix of table t with at most n elements.
Prefixes(t, n) == {SubSeq(t, 1, m) : m \in 1..n}

ElevationValues == {45, 90}
AzimuthValues == {0, 180}
cloud_base_values == <<1000, 2000, 3000, 4000>>

\* wav.lst, first column, in units of 1e-4 nm (400.0 nm, 500.0 nm, 400.0004 nm, ...).
wav_lst == <<4000000, 5000000, 4000004, 6000000>>

\* ds.get_obs_pos(): (lat, lon) of each observer in units of 1e-7 degree.  batches()
\* makes obs_data/<"%6f_%6f">/<layer> for each observer with os.makedirs and no
\* exist_ok, so the observers of a run that gets past preprocessing have pairwise
\* distinct 6-decimal renderings; the table respects that.
obs_pos == << <<14, 3>>, <<26, 3>>, <<14, 18>>, <<38, 3>> >>

lamps == <<"lamp1", "lamp2">>
exp_name == "exp"

\* The parameter names the model follows, in the order the params dict holds them:
\* the yaml keys, then the three keys batches() adds.
ParamNames ==
    <<"elevation_angle", "azimuth_angle", "cloud_base",
      "wavelength", "layer", "observer_coordinates">>

\* params[k] after batches() has loaded and completed the dict.
params(k) ==
    CASE k = "elevation_angle" -> inp.elevation_angle
      [] k = "azimuth_angle" -> inp.azimuth_angle
      [] k = "cloud_base" -> inp.cloud_base
      [] k = "wavelength" -> List(SubSeq(wav_lst, 1, inp.nbands))
      [] k = "layer" ->
            IF inp.nlayers = 1 THEN Scalar(0)
            ELSE List([n \in 1..inp.nlayers |-> n - 1])
      [] k = "observer_coordinates" ->
            IF inp.nobs = 1 THEN Scalar(obs_pos[1])
            ELSE List(SubSeq(obs_pos, 1, inp.nobs))

\* len(k) of a parameter name.
NameLen(k) ==
    CASE k = "observer_coordinates" -> 20
      [] k = "elevation_angle" -> 15
      [] k = "azimuth_angle" -> 13
      [] k = "cloud_base" -> 10
      [] k = "wavelength" -> 10
      [] k = "layer" -> 5

Card(k) == Len(params(k).vals)

----------------------------------------------------------------------------
(* batches(): the ordering of the varying parameters and their product *)

\* A sort by the number of values of the parameter, not by the length of its name.
SortKeyCard(k) == Card(k)

\* The key of sorted(multival, key=len, reverse=True): len of the NAME.
SortKey(k) == NameLen(k)

\* s with k put after every element whose key is at least k's: one step of a stable
\* descending sort.
Insert(s, k) ==
    LET before == {n \in 1..Len(s) : SortKey(s[n]) >= SortKey(k)}
        cut == IF before = {} THEN 0
               ELSE CHOOSE n \in before : \A m \in before : m <= n
    IN  SubSeq(s, 1, cut) \o <<k>> \o SubSeq(s, cut + 1, Len(s))

RECURSIVE Sorted(_)
\* sorted(s, key=len, reverse=True): descending by key, equal keys in their order in s.
Sorted(s) ==
    IF s = <<>> THEN <<>>
    ELSE Insert(Sorted(SubSeq(s, 1, Len(s) - 1)), s[Len(s)])

\* [k for k in params if isinstance(params[k], list)], then sorted.
Multival == Sorted(SelectSeq(ParamNames, LAMBDA k : params(k).list))

InMultival(k) == \E j \in 1..Len(multival) : multival[j] = k

RECURSIVE Stride(_)
\* The number of combinations that share the first j values of a tuple.
Stride(j) ==
    IF j >= Len(multival) THEN 1
    ELSE Card(multival[j + 1]) * Stride(j + 1)

\* N = np.prod([len(p) for p in param_space])
N == Stride(0)

\* 1-based index, in the list of multival[j], of the value the i-th tuple of
\* product(*param_space) holds there: the last parameter varies fastest.
Idx(i, j) == (((i - 1) \div Stride(j)) % Card(multival[j])) + 1

\* param_vals: the i-th tuple of list(product(*param_space)).
param_vals(i) == [j \in 1..Len(multival) |-> params(multival[j]).vals[Idx(i, j)]]

\* P[k] for the i-th tuple, P = ChainMap(local_params, params), before line 271.
P(i, k) ==
    IF InMultival(k)
    THEN param_vals(i)[CHOOSE j \in 1..Len(multival) : multival[j] = k]
    ELSE params(k).vals[1]

----------------------------------------------------------------------------
(* folder_setup(): one combination *)

\* list.index(v): 0-based position of the first element equal to v.
Index(s, v) == (CHOOSE n \in 1..Len(s) : s[n] = v /\ \A m \in 1..(n - 1) : s[m] # v) - 1

\* The test without its elevation part: every azimuth but the first is dropped at
\* every elevation.
SkipAnyElevation(i) ==
    /\ InMultival("azimuth_angle")
    /\ Index(params("azimuth_angle").vals, P(i, "azimuth_angle")) # 0

\* The condition of the 'continue' of folder_setup.
Skip(i) ==
    /\ InMultival("azimuth_angle")
    /\ P(i, "elevation_angle") = 90
    /\ Index(params("azimuth_angle").vals, P(i, "azimuth_angle")) # 0

\* "%6f" of a non-negative coordinate given in 1e-7 degree: the nearest 1e-6 degree.
Fmt6(x) == (x + 5) \div 10

\* "%g" of a wavelength of 100 to 1000 nm given in 1e-4 nm: six significant digits,
\* that is the nearest 1e-3 nm.
FmtG(w) == (w + 5) \div 10

\* coords = "%6f_%6f" % P["observer_coordinates"]
coords(i) ==
    LET o == P(i, "observer_coordinates")
    IN  <<Fmt6(o[1]), Fmt6(o[2])>>

\* local_params.items() once P["observer_coordinates"] = coords has run.
local_params(i) ==
    [j \in 1..Len(multival) |->
        <<multival[j],
          IF multival[j] = "observer_coordinates" THEN coords(i)
          ELSE param_vals(i)[j]>>]

\* A compact path that leaves the layer out.
CompactKeysNoLayer == {"observer_coordinates", "wavelength"}

\* The keys a compact sandbox path is made of.
CompactKeys == {"observer_coordinates", "wavelength", "layer"}

\* The path of the non-compact branch taken in both modes.
fold_name_full(i) == local_params(i)

\* fold_name, without its constant prefix dir_name: the k_v segments joined by os.sep.
fold_name(i) ==
    IF inp.compact
    THEN SelectSeq(local_params(i), LAMBDA kv : kv[1] \in CompactKeys)
    ELSE local_params(i)

\* unique_ID = "-".join("%s_%s" % item for item in local_params.items())
unique_ID(i) == local_params(i)

\* wavelength = "%g" % P["wavelength"]
wavelength(i) == FmtG(P(i, "wavelength"))

layer(i) == P(i, "layer")

\* wls.index(P["wavelength"]) is a valid index of refls.
ReflInRange(i) == Index(params("wavelength").vals, P(i, "wavelength")) < inp.nrefl

----------------------------------------------------------------------------
(* create_symlinks() *)

\* What a link points at.
Target(file, w, c, l, lamp) ==
    [file |-> file, wavelength |-> w, coords |-> c, layer |-> l, lamp |-> lamp]

NoCoords == <<-1, -1>>

\* One link: its name in the sandbox (a base name and, for the per-lamp links, the
\* 1-based number of the lamp, else 0) and its target.
Link(base, n, target) == [name |-> <<base, n>>, target |-> target]

\* The links create_symlinks makes in a new sandbox.
Links(c, l, w) ==
    {Link("aerosol.txt", 0, Target("aerosol_profile", w, NoCoords, -1, "")),
     Link("layer.txt", 0, Target("layer_type", w, NoCoords, -1, "")),
     Link("MolecularAbs.txt", 0, Target("MolecularAbs.txt", -1, NoCoords, -1, "")),
     Link("illumina", 0, Target("bin/illumina", -1, NoCoords, -1, "")),
     Link("topogra.bin", 0, Target("srtm.bin", -1, c, l, "")),
     Link("origin.bin", 0, Target("origin.bin", -1, c, l, ""))}
    \cup {Link(nm, 0, Target(nm, -1, c, l, "")) :
            nm \in {"obstd.bin", "obsth.bin", "obstf.bin", "altlp.bin"}}
    \cup {Link("fctem.dat", n, Target("fctem", w, NoCoords, -1, lamps[n])) :
            n \in 1..Len(lamps)}
    \cup {Link("lumlp.bin", n, Target("lumlp", w, c, l, lamps[n])) :
            n \in 1..Len(lamps)}

\* The sandbox a creating call leaves: the arguments that decide its links, and how
\* many times the directory has been linked.
Sandbox(c, l, w) == [coords |-> c, layer |-> l, wavelength |-> w, made |-> 1]

\* The links present in the sandbox at path p.
links(p) == Links(fs[p].coords, fs[p].layer, fs[p].wavelength)

\* create_symlinks without its isdir test: an existing sandbox is linked again.
create_symlinks_relink(fold, c, l, w) ==
    IF fold \in DOMAIN fs
    THEN [fs EXCEPT ![fold] = [Sandbox(c, l, w) EXCEPT !.made = fs[fold].made + 1]]
    ELSE (fold :> Sandbox(c, l, w)) @@ fs

\* The tree after create_symlinks(fold, ..., c, l, ..., w).
create_symlinks(fold, c, l, w) ==
    IF fold \in DOMAIN fs THEN fs
    ELSE (fold :> Sandbox(c, l, w)) @@ fs

----------------------------------------------------------------------------
(* The run *)

\* The values a yaml parameter may hold: a scalar of S, or a list over S.
YamlValues(S) == {Scalar(v) : v \in S} \cup {List(s) : s \in ListsOver(S, MaxLen)}

\* A scalar, or a list without repeated values: the first value of table t, or a
\* prefix of t.
YamlPrefixes(t) == {Scalar(t[1])} \cup {List(s) : s \in Prefixes(t, MaxLen)}

elevation_values == <<90, 45, 30, 60>>
azimuth_values == <<0, 180, 90, 270>>

\* The state when batches() is called, for given sets of inputs: the yaml values of
\* three parameters, the lengths of refl.lst relative to wav.lst, and the sets of
\* missing assets (by the file field of a link target).  bound tells whether the
\* names refls, wls, spectral_bands and lamps resolve in the namespace of the module
\* when folder_setup runs (to the values batches() loaded); batches.py itself never
\* binds them.
InitWith(ElS, AzS, CbS, ReflS, MissS) ==
    /\ inp \in [elevation_angle : ElS, azimuth_angle : AzS, cloud_base : CbS,
                nbands : 1..MaxBands, nrefl : 1..(MaxBands + 1),
                nlayers : 1..MaxLayers, nobs : 1..MaxObs,
                compact : BOOLEAN, bound : BOOLEAN, missing : MissS]
    /\ (inp.nrefl - inp.nbands) \in ReflS
    /\ Len(inp.elevation_angle.vals) * Len(inp.azimuth_angle.vals)
         * Len(inp.cloud_base.vals) * inp.nbands * inp.nlayers * inp.nobs <= MaxCombos
    /\ pc = "start"
    /\ err = "none"
    /\ multival = <<>>
    /\ pos = 0
    /\ exe_location = <<>>
    /\ exe_input = <<>>
    /\ fs = <<>>
    /\ manifest = <<>>
    /\ scripts = <<>>

\* Runs over every elevation and azimuth list, repeated values included; refl.lst is
\* as long as wav.lst or one value short; every asset is there.
Init ==
    InitWith(YamlValues(ElevationValues), YamlValues(AzimuthValues),
             {Scalar(cloud_base_values[1])}, {0, -1}, {{}})

\* Runs in which a second yaml parameter, whose name is as long as "wavelength", may
\* be a list too.
InitOrder ==
    InitWith(YamlPrefixes(elevation_values), YamlPrefixes(azimuth_values),
             YamlPrefixes(cloud_base_values), {0, -1}, {{}})

\* Runs with a refl.lst shorter or longer than wav.lst, or with an asset missing.
InitInputs ==
    InitWith(YamlPrefixes(elevation_values), YamlPrefixes(azimuth_values),
             {Scalar(cloud_base_values[1])}, {-1, 0, 1},
             {{}, {"MolecularAbs.txt"}, {"lumlp"}})

\* batches() up to the call of folder_setup: the parameters are loaded, exec/ is
\* cleared and the varying names are sorted.
batches ==
    /\ pc = "start"
    /\ multival' = Multival
    /\ fs' = <<>>
    /\ pc' = "setup"
    /\ UNCHANGED <<inp, err, pos, exe_location, exe_input, manifest, scripts>>

\* folder_setup is entered: by batches(), or once more on the same arguments with
\* the sandbox tree left as the first pass made it.
folder_setup ==
    /\ pc \in {"setup", "done"}
    /\ pos' = 1
    /\ exe_location' = <<>>
    /\ exe_input' = <<>>
    /\ pc' = "loop"
    /\ UNCHANGED <<inp, err, multival, fs, manifest, scripts>>

\* An iteration that the elevation/azimuth test ends with 'continue'.
loop_continue ==
    /\ pc = "loop"
    /\ pos <= N
    /\ Skip(pos)
    /\ pos' = pos + 1
    /\ UNCHANGED <<inp, pc, err, multival, exe_location, exe_input, fs, manifest, scripts>>

\* refls, wls, spectral_bands and lamps are no parameters and no locals of
\* folder_setup: they are looked up in the module namespace, where batches.py binds
\* none of them.
loop_NameError ==
    /\ pc = "loop"
    /\ pos <= N
    /\ ~Skip(pos)
    /\ ~inp.bound
    /\ err' = "NameError"
    /\ pc' = "raised"
    /\ UNCHANGED <<inp, multival, pos, exe_location, exe_input, fs, manifest, scripts>>

\* refls[wls.index(P["wavelength"])] with a reflectance list that is too short.
loop_IndexError ==
    /\ pc = "loop"
    /\ pos <= N
    /\ ~Skip(pos)
    /\ inp.bound
    /\ ~ReflInRange(pos)
    /\ err' = "IndexError"
    /\ pc' = "raised"
    /\ UNCHANGED <<inp, multival, pos, exe_location, exe_input, fs, manifest, scripts>>

\* An iteration that runs to its end: the sandbox is made if it is not there, and
\* the combination is recorded.
loop_body ==
    /\ pc = "loop"
    /\ pos <= N
    /\ ~Skip(pos)
    /\ inp.bound
    /\ ReflInRange(pos)
    /\ fs' = create_symlinks(fold_name(pos), coords(pos), layer(pos), wavelength(pos))
    /\ exe_input' = Append(exe_input, unique_ID(pos))
    /\ exe_location' = Append(exe_location, fold_name(pos))
    /\ pos' = pos + 1
    /\ UNCHANGED <<inp, pc, err, multival, manifest, scripts>>

\* exe_output, the third list of folder_setup: f"{exp_name}_{unique_ID}".
exe_output == [n \in 1..Len(exe_input) |-> <<exp_name, exe_input[n]>>]

\* The line of execute_info.txt for the n-th recorded combination.
Line(n) ==
    [loc |-> exe_location[n],
     input |-> <<exe_input[n], ".in">>,
     output |-> <<exe_output[n], ".out">>]

\* The loop is over: execute_info.txt is written and folder_setup returns.
folder_setup_return ==
    /\ pc = "loop"
    /\ pos = N + 1
    /\ manifest' = [n \in 1..Len(exe_location) |-> Line(n)]
    /\ pc' = "returned"
    /\ UNCHANGED <<inp, err, multival, pos, exe_location, exe_input, fs, scripts>>

\* The four commands param_generate appends to the 'execute' script of a sandbox
\* for the combination with the given unique_ID.
run_block(id) ==
    <<<<"cp", id, ".in", "illumina.in">>,
      <<"./illumina">>,
      <<"mv", exp_name, ".out", exp_name, id, ".out">>,
      <<"mv", exp_name, "_pcl.bin", exp_name, "_pcl", id, ".bin">>>>

\* batches() after folder_setup: param_vals.txt and const_params.txt are written and
\* the function returns; the pool that would run param_generate is never reached.
batches_return ==
    /\ pc = "returned"
    /\ pc' = "done"
    /\ UNCHANGED <<inp, err, multival, pos, exe_location, exe_input, fs, manifest, scripts>>

Next ==
    \/ batches
    \/ folder_setup
    \/ loop_continue
    \/ loop_NameError
    \/ loop_IndexError
    \/ loop_body
    \/ folder_setup_return
    \/ batches_return

Spec == Init /\ [][Next]_vars

SpecOrder == InitOrder /\ [][Next]_vars

SpecInputs == InitInputs /\ [][Next]_vars

----------------------------------------------------------------------------
(* Properties *)

\* The indices of param_values that pass the 'continue' test, in order.
KeptSeq == SelectSeq([i \in 1..N |-> i], LAMBDA i : ~Skip(i))

\* The sequence of unique_IDs of the combinations that satisfy Keep, in generation
\* order.
IDsOf(Keep(_)) ==
    LET idx == SelectSeq([i \in 1..N |-> i], Keep)
    IN  [n \in 1..Len(idx) |-> unique_ID(idx[n])]

\* 1-based place of k in multival.
PosOf(k) == CHOOSE j \in 1..Len(multival) : multival[j] = k

Zenith(i) == P(i, "elevation_angle") = 90

\* One combination per zenith context: the one at the first place of the azimuth
\* list.
KeepOnePerContext(i) ==
    \/ ~InMultival("azimuth_angle")
    \/ ~Zenith(i)
    \/ Idx(i, PosOf("azimuth_angle")) = 1

\* Every combination whose azimuth VALUE is that of the first element.
KeepFirstValue(i) ==
    \/ ~InMultival("azimuth_angle")
    \/ ~Zenith(i)
    \/ P(i, "azimuth_angle") = params("azimuth_angle").vals[1]

LineOf(i) ==
    [loc |-> fold_name(i),
     input |-> <<unique_ID(i), ".in">>,
     output |-> <<<<exp_name, unique_ID(i)>>, ".out">>]

SandboxKey(i) == <<P(i, "observer_coordinates"), P(i, "wavelength"), P(i, "layer")>>

C6_RunBlocks ==
    pc \in {"done", "raised"} =>
        \A i \in 1..N :
            ~Skip(i) =>
                /\ fold_name(i) \in DOMAIN scripts
                /\ \E n \in 1..Len(scripts[fold_name(i)]) :
                      scripts[fold_name(i)][n] = run_block(unique_ID(i))

DeclPos(k) == CHOOSE n \in 1..Len(ParamNames) : ParamNames[n] = k

\* multival holds each list-valued parameter once and nothing else.
IsTheVarying(s) ==
    /\ \A k \in Range(ParamNames) : params(k).list <=> k \in Range(s)
    /\ \A a, b \in 1..Len(s) : a # b => s[a] # s[b]

\* The keys of a sequence of <<k, v>> pairs.
Keys(kv) == [j \in 1..Len(kv) |-> kv[j][1]]

\* The path segments and the ID pairs of every recorded combination follow
\* multival, and the value of each pair is one of the values of its parameter.
FollowMultival ==
    \A n \in 1..Len(exe_input) :
        /\ Keys(exe_input[n]) = multival
        /\ Keys(exe_location[n]) =
              IF inp.compact
              THEN SelectSeq(multival,
                             LAMBDA k : k \in {"observer_coordinates", "wavelength", "layer"})
              ELSE multival
        /\ \A j \in 1..Len(multival) :
              multival[j] # "observer_coordinates" =>
                  exe_input[n][j][2] \in Range(params(multival[j]).vals)

\* C9, as stated: the varying names are in descending order of their number of
\* values, names with as many values in declaration order.
C9_ByCardinality ==
    pc # "start" =>
        /\ IsTheVarying(multival)
        /\ \A a, b \in 1..Len(multival) :
              a < b =>
                  \/ Card(multival[a]) > Card(multival[b])
                  \/ /\ Card(multival[a]) = Card(multival[b])
                     /\ DeclPos(multival[a]) < DeclPos(multival[b])
        /\ FollowMultival

\* C9, amended: the varying names are in descending order of the length of the
\* name, names of the same length in declaration order; the paths and the IDs
\* follow that order.
C9_ByNameLength ==
    pc # "start" =>
        /\ IsTheVarying(multival)
        /\ \A a, b \in 1..Len(multival) :
              a < b =>
                  \/ NameLen(multival[a]) > NameLen(multival[b])
                  \/ /\ NameLen(multival[a]) = NameLen(multival[b])
                     /\ DeclPos(multival[a]) < DeclPos(multival[b])
        /\ FollowMultival

\* A recorded combination of a run with two varying names of the same length and
\* with a name that has fewer values than a name after it.
C9_Witness ==
    /\ Len(exe_input) >= 1
    /\ \E a, b \in 1..Len(multival) :
          a < b /\ NameLen(multival[a]) = NameLen(multival[b])
    /\ \E a, b \in 1..Len(multival) :
          a < b /\ Card(multival[a]) < Card(multival[b])

\* The sandbox at path p holds the links create_symlinks makes for the i-th
\* combination: it was made with the same three arguments, or with others that give
\* the same links.
HoldsLinksOf(p, i) ==
    \/ /\ fs[p].coords = coords(i)
       /\ fs[p].layer = layer(i)
       /\ fs[p].wavelength = wavelength(i)
    \/ links(p) = Links(coords(i), layer(i), wavelength(i))

====
